---- MODULE Spec2Model ----
(***************************************************************************)
(* SoundMaker: the audio-source controller (audio_controller.py), the      *)
(* player supervisor (stream_player.py), the status file (player.py        *)
(* write_state_file, led_controller.py read_state) and the supervisory     *)
(* loop with its signal handler (player.py main, signal_handler).          *)
(*                                                                         *)
(* The main thread is a program counter `pc` over the statements of the    *)
(* source plus a stack of return addresses.  A Python signal handler runs  *)
(* on the main thread between two bytecodes: delivery pushes an "intr"     *)
(* frame holding the interrupted location and runs signal_handler; its     *)
(* sys.exit(0) raises SystemExit, which unwinds every frame below it.      *)
(***************************************************************************)
EXTENDS Integers, Sequences, FiniteSets, TLC

VARIABLES
    state,          \* AudioController.state
    process,        \* StreamPlayer.process: "none" | "alive" | "dead"
    is_playing_flag,\* StreamPlayer._is_playing
    restart_count,  \* StreamPlayer.restart_count
    orphans,        \* live mpv processes no handle refers to any more
    airplay_manager,\* main(): the manager object, FALSE when set to None
    pc,             \* statement the main thread executes next
    stack,          \* return addresses and interrupted locations
    result,         \* value returned by the last bool-returning call
    event,          \* main(): event
    data,           \* check_event(): what the poll of this iteration read
    current_state,  \* main(): current_state
    last_state,     \* main(): last_state
    return_code,    \* main(): return_code
    should_restart, \* main(): should_restart
    state_str,      \* write_state_file(): state_str
    open_files,     \* file objects of the active `with open(temp_file)` blocks
    temp_file,      \* content of /tmp/soundmaker_state.tmp, or NoFile
    state_file,     \* content of /tmp/soundmaker_state, or NoFile
    signals,        \* number of shutdown signals delivered so far
    exit_code,      \* exit status of the daemon, once it has terminated
    consec_ones,    \* history: consecutive player exits with code 1 handled
    call,           \* history: the controller operation a client called last
    pipe_path,      \* the FIFO at AirPlayManager.pipe_path, 0 when none exists
    pipe_fd,        \* the FIFO AirPlayManager.pipe_fd is open on, 0 when None
    fifos           \* unread bytes of every FIFO created so far, by number

vars == <<state, process, is_playing_flag, restart_count, orphans,
          airplay_manager, pc, stack, result, event, data, current_state,
          last_state, return_code, should_restart, state_str, open_files,
          temp_file, state_file, signals, exit_code, consec_ones, call,
          pipe_path, pipe_fd, fifos>>

(***************************************************************************)
(* Bounds                                                                  *)
(***************************************************************************)
MaxSignals == 1
MaxOrphans == 2
MaxPipes == 2       \* FIFOs that are ever created at the pipe path
MaxCount == 11      \* restart_count when nothing resets it
MaxPipeBytes == 20  \* unread bytes a FIFO holds

(***************************************************************************)
(* Program constants                                                       *)
(***************************************************************************)
max_restart_attempts == 10
ReadSize == 64      \* os.read(self.pipe_fd, 64)

STREAMING == "STREAMING"
AIRPLAY == "AIRPLAY"
IDLE == "IDLE"
TRANSITIONING == "TRANSITIONING"
AudioState == {STREAMING, AIRPLAY, IDLE, TRANSITIONING}

None == "None"
\* a path no file exists at (told apart from every content, the empty one too)
NoFile == <<"ENOENT">>
NoProcess == -1

ExitCodes == {0, 1, 2, 3}

(***************************************************************************)
(* Text: the tokens of the status file are sequences of characters.        *)
(***************************************************************************)
AudioStateValue(s) ==
    CASE s = STREAMING -> <<"s","t","r","e","a","m","i","n","g">>
      [] s = AIRPLAY -> <<"a","i","r","p","l","a","y">>
      [] s = IDLE -> <<"i","d","l","e">>
      [] s = TRANSITIONING ->
            <<"t","r","a","n","s","i","t","i","o","n","i","n","g">>

LowerChar(c) ==
    CASE c = "A" -> "a" [] c = "C" -> "c" [] c = "D" -> "d" [] c = "E" -> "e"
      [] c = "F" -> "f" [] c = "G" -> "g"
      [] c = "I" -> "i" [] c = "L" -> "l" [] c = "M" -> "m" [] c = "N" -> "n"
      [] c = "O" -> "o" [] c = "P" -> "p" [] c = "R" -> "r" [] c = "S" -> "s"
      [] c = "T" -> "t" [] c = "Y" -> "y" [] OTHER -> c

Lower(s) == [i \in DOMAIN s |-> LowerChar(s[i])]

Whitespace == {" ", "\n", "\t", "\r"}

RECURSIVE LStrip(_)
LStrip(s) == IF s # <<>> /\ Head(s) \in Whitespace THEN LStrip(Tail(s)) ELSE s

RECURSIVE RStrip(_)
RStrip(s) ==
    IF s # <<>> /\ s[Len(s)] \in Whitespace
    THEN RStrip(SubSeq(s, 1, Len(s) - 1)) ELSE s

Strip(s) == RStrip(LStrip(s))

\* the argument of write_state_file is an AudioState or a str
EnumArg(s) == [enum |-> s]
StrArg(s) == [str |-> s]

\* player.py 38-41
StateStr(arg) ==
    IF "enum" \in DOMAIN arg THEN AudioStateValue(arg.enum) ELSE Lower(arg.str)

\* a write() of `buf` at offset 0 of a file holding `content`
WriteAt0(content, buf) ==
    IF Len(buf) >= Len(content) THEN buf
    ELSE buf \o SubSeq(content, Len(buf) + 1, Len(content))

ValidTokens == {AudioStateValue(STREAMING), AudioStateValue(AIRPLAY),
                AudioStateValue(IDLE)}

\* what read_state returns when it returns None (no token is empty)
NoToken == <<>>

\* led_controller.py 84-102: the token read_state returns
ReadState(raw) ==
    IF raw = NoFile THEN NoToken
    ELSE IF Lower(Strip(raw)) \in ValidTokens THEN Lower(Strip(raw))
    ELSE NoToken

(***************************************************************************)
(* Event messages: what one os.read of the pipe returns, and the event     *)
(* check_event makes of it (airplay_manager.py 172-198).                   *)
(***************************************************************************)
\* select found nothing to read within the timeout
NoData == <<"timeout">>
\* bytes that are not UTF-8
Undecodable == <<"undecodable">>

ConnectMsg == <<"c","o","n","n","e","c","t","\n">>
DisconnectMsg == <<"D","i","s","c","o","n","n","e","c","t","\n">>
FooMsg == <<"f","o","o","\n">>
BlankMsg == <<" ","\n">>

\* a classification that compares without lower-casing
Classify_case_sensitive(d) ==
    IF d = NoData \/ d = Undecodable THEN None
    ELSE IF Strip(d) = <<>> THEN None
    ELSE IF Strip(d) = <<"c","o","n","n","e","c","t">> THEN "connect"
    ELSE IF Strip(d) = <<"d","i","s","c","o","n","n","e","c","t">>
    THEN "disconnect"
    ELSE None

\* a classification that takes every text that is not connect for disconnect
Classify_two_way(d) ==
    IF d = NoData \/ d = Undecodable THEN None
    ELSE IF Lower(Strip(d)) = <<"c","o","n","n","e","c","t">> THEN "connect"
    ELSE "disconnect"

\* 176-187: decode, strip, lower, compare
Classify(d) ==
    IF d = NoData \/ d = Undecodable THEN None
    ELSE IF Strip(d) = <<>> THEN None
    ELSE IF Lower(Strip(d)) = <<"c","o","n","n","e","c","t">> THEN "connect"
    ELSE IF Lower(Strip(d)) = <<"d","i","s","c","o","n","n","e","c","t">>
    THEN "disconnect"
    ELSE None

\* what the poll of one iteration can read
Reads == {NoData, Undecodable, ConnectMsg, DisconnectMsg, FooMsg, BlankMsg}

(***************************************************************************)
(* StreamPlayer helpers                                                    *)
(***************************************************************************)
\* stream_player.py 136-144: the value is_playing() returns
is_playing(proc, flag) ==
    IF proc = "none" THEN FALSE
    ELSE IF proc = "dead" THEN FALSE
    ELSE flag

\* stream_player.py 136-144: _is_playing after is_playing() ran
is_playing_effect(proc, flag) ==
    IF proc = "dead" THEN FALSE ELSE flag

\* increment_restart_count that counts an exit twice
increment_restart_count_twice(count) ==
    [count |-> count + 2, reached |-> count + 2 >= max_restart_attempts]

\* increment_restart_count that reports the maximum one exit late
increment_restart_count_late(count) ==
    [count |-> count + 1, reached |-> count + 1 > max_restart_attempts]

\* increment_restart_count that never reports the maximum
increment_restart_count_unbounded(count) ==
    [count |-> count + 1, reached |-> FALSE]

\* stream_player.py 195-198
increment_restart_count(count) ==
    [count |-> count + 1, reached |-> count + 1 >= max_restart_attempts]

\* stream_player.py 191-193
reset_restart_count(count) == 0

\* handle_stream_exit that treats exit code 0 like any other code
handle_stream_exit_counts_zero(st, count, code) ==
    IF st # STREAMING THEN [restart |-> FALSE, count |-> count]
    ELSE LET inc == increment_restart_count(count)
         IN [restart |-> ~inc.reached, count |-> inc.count]

\* handle_stream_exit that does not look at the mode
handle_stream_exit_any_mode(st, count, code) ==
    IF code = 0 THEN [restart |-> FALSE, count |-> count]
    ELSE LET inc == increment_restart_count(count)
         IN [restart |-> ~inc.reached, count |-> inc.count]

\* audio_controller.py 143-177: the value returned and the counter afterwards
handle_stream_exit(st, count, code) ==
    IF st # STREAMING THEN [restart |-> FALSE, count |-> count]
    ELSE IF code = 0 THEN [restart |-> FALSE, count |-> count]
    ELSE LET inc == increment_restart_count(count)
         IN [restart |-> ~inc.reached, count |-> inc.count]

(***************************************************************************)
(* Control flow helpers                                                    *)
(***************************************************************************)
CallFrame(ret) == [k |-> "call", at |-> ret]
IntrFrame(at) == [k |-> "intr", at |-> at]

Call(target, ret) ==
    /\ pc' = target
    /\ stack' = <<CallFrame(ret)>> \o stack

Return ==
    /\ pc' = Head(stack).at
    /\ stack' = Tail(stack)

Terminated == pc \in {"done", "exited"}

Min(a, b) == IF a < b THEN a ELSE b

(***************************************************************************)
(* Initial state: main() after the components are constructed (line 146)   *)
(***************************************************************************)
NoCall ==
    [op |-> "none", state |-> IDLE, process |-> "none", flag |-> FALSE,
     count |-> 0, code |-> 0]

Constructed ==
    /\ state = IDLE
    /\ process = "none"
    /\ is_playing_flag = FALSE
    /\ restart_count = 0
    /\ orphans = 0
    /\ airplay_manager \in BOOLEAN
    /\ stack = <<>>
    /\ result = FALSE
    /\ event = None
    /\ data = NoData
    /\ current_state = None
    /\ last_state = None
    /\ return_code = 0
    /\ should_restart = FALSE
    /\ state_str = <<>>
    /\ open_files = <<>>
    /\ temp_file = NoFile
    /\ state_file = NoFile
    /\ signals = 0
    /\ exit_code = 0
    /\ consec_ones = 0
    /\ call = NoCall
    /\ pipe_path = IF airplay_manager THEN 1 ELSE 0
    /\ pipe_fd = 0
    /\ fifos = IF airplay_manager THEN << <<>> >> ELSE <<>>

Init == Constructed /\ pc = "startup"

(***************************************************************************)
(* Variable groups                                                         *)
(***************************************************************************)
player_vars == <<process, is_playing_flag, restart_count, orphans>>
local_vars ==
    <<event, data, current_state, last_state, return_code, should_restart>>
file_vars == <<state_str, open_files, temp_file, state_file>>
pipe_vars == <<pipe_path, pipe_fd, fifos>>
env_vars == <<airplay_manager, signals, exit_code, consec_ones, call, pipe_vars>>

\* start_streaming without the refusal in AIRPLAY
start_streaming_unguarded ==
    /\ pc = "start_streaming"
    /\ IF state = STREAMING /\ is_playing(process, is_playing_flag)
       THEN /\ result' = TRUE
            /\ Return
            /\ UNCHANGED <<state, is_playing_flag>>
       ELSE /\ is_playing_flag' =
                 IF state = STREAMING
                 THEN is_playing_effect(process, is_playing_flag)
                 ELSE is_playing_flag
            /\ state' = TRANSITIONING
            /\ pc' = "sp_start"
            /\ UNCHANGED <<result, stack>>
    /\ UNCHANGED <<process, restart_count, orphans>>
    /\ UNCHANGED <<local_vars, file_vars, env_vars>>

(***************************************************************************)
(* AudioController.start_streaming, audio_controller.py 38-69              *)
(***************************************************************************)
start_streaming ==
    /\ pc = "start_streaming"
    /\ IF state = AIRPLAY
       THEN /\ result' = FALSE
            /\ Return
            /\ UNCHANGED <<state, is_playing_flag>>
       ELSE IF state = STREAMING /\ is_playing(process, is_playing_flag)
       THEN /\ result' = TRUE
            /\ Return
            /\ UNCHANGED <<state, is_playing_flag>>
       ELSE /\ is_playing_flag' =
                 IF state = STREAMING
                 THEN is_playing_effect(process, is_playing_flag)
                 ELSE is_playing_flag
            /\ state' = TRANSITIONING
            /\ pc' = "sp_start"
            /\ UNCHANGED <<result, stack>>
    /\ UNCHANGED <<process, restart_count, orphans>>
    /\ UNCHANGED <<local_vars, file_vars, env_vars>>

\* the handle is overwritten or dropped: a subprocess still alive behind it
\* keeps running with nothing referring to it
Abandon(proc, n) == IF proc = "alive" THEN Min(n + 1, MaxOrphans) ELSE n

(***************************************************************************)
(* StreamPlayer.start, stream_player.py 52-94: the availability check and  *)
(* the launch.  outcome is what the environment makes of them.             *)
(***************************************************************************)
StartOutcomes == {"unavailable", "check_raises", "not_found", "denied",
                  "launch_error", "launched"}

sp_start ==
    /\ pc = "sp_start"
    /\ \E outcome \in StartOutcomes :
        CASE outcome = "unavailable" ->
                \* 60-62
                /\ result' = FALSE
                /\ pc' = "ss_ret"
                /\ UNCHANGED <<process, orphans, stack, exit_code>>
          [] outcome = "check_raises" ->
                \* 38-50: subprocess.run raises an exception is_mpv_available
                \* does not catch; it leaves start() and start_streaming().
                \* In the loop main() catches it (player.py 224-226) and calls
                \* signal_handler; before the loop nothing catches it.
                /\ UNCHANGED <<result, process, orphans>>
                /\ IF stack[Len(stack)].at = "startup_ret"
                   THEN /\ pc' = "exited"
                        /\ exit_code' = 1
                        /\ stack' = <<>>
                   ELSE IF stack[Len(stack)].at = "client"
                   THEN /\ pc' = "client"       \* raised to the caller
                        /\ stack' = <<>>
                        /\ UNCHANGED exit_code
                   ELSE /\ pc' = "signal_handler"
                        /\ stack' = <<IntrFrame("except")>>
                        /\ UNCHANGED exit_code
          [] outcome \in {"not_found", "denied"} ->
                \* 108-113: Popen raised, the handle is left as it was
                /\ result' = FALSE
                /\ pc' = "ss_ret"
                /\ UNCHANGED <<process, orphans, stack, exit_code>>
          [] outcome = "launch_error" ->
                \* 114-117
                /\ result' = FALSE
                /\ process' = "none"
                /\ orphans' = Abandon(process, orphans)
                /\ pc' = "ss_ret"
                /\ UNCHANGED <<stack, exit_code>>
          [] outcome = "launched" ->
                \* 85-91
                /\ process' = "alive"
                /\ orphans' = Abandon(process, orphans)
                /\ pc' = "sp_grace"
                /\ UNCHANGED <<result, stack, exit_code>>
    /\ UNCHANGED <<state, is_playing_flag, restart_count>>
    /\ UNCHANGED <<local_vars, file_vars>>
    /\ UNCHANGED <<airplay_manager, call, pipe_vars, signals, consec_ones>>

\* stream_player.py 96-106: after the 1s grace sleep
sp_grace ==
    /\ pc = "sp_grace"
    /\ IF process = "alive"
       THEN /\ is_playing_flag' = TRUE
            /\ result' = TRUE
            /\ UNCHANGED process
       ELSE /\ process' = "none"
            /\ result' = FALSE
            /\ UNCHANGED is_playing_flag
    /\ pc' = "ss_ret"
    /\ UNCHANGED <<state, stack, restart_count, orphans>>
    /\ UNCHANGED <<local_vars, file_vars, env_vars>>

\* audio_controller.py 62-69
ss_ret ==
    /\ pc = "ss_ret"
    /\ state' = IF result THEN STREAMING ELSE IDLE
    /\ Return
    /\ UNCHANGED <<result, player_vars, local_vars, file_vars, env_vars>>

(***************************************************************************)
(* StreamPlayer.stop, stream_player.py 119-134                             *)
(***************************************************************************)
sp_stop ==
    /\ pc = "sp_stop"
    /\ IF process # "none"
       THEN /\ pc' = "sp_stop_wait"      \* 123: terminate() sent
            /\ UNCHANGED stack
       ELSE Return
    /\ UNCHANGED <<state, result, player_vars, local_vars, file_vars, env_vars>>

\* 129-130: kill() and wait()
killed(proc) == "dead"

\* a stop that gives up after the 5s wait and clears the handle without kill
sp_stop_wait_no_kill ==
    /\ pc = "sp_stop_wait"
    /\ \E graceful \in BOOLEAN :
        LET p == IF graceful THEN "dead" ELSE process
        IN  /\ process' = "none"
            /\ is_playing_flag' = FALSE
            /\ orphans' = Abandon(p, orphans)
    /\ Return
    /\ UNCHANGED <<state, result, restart_count>>
    /\ UNCHANGED <<local_vars, file_vars, env_vars>>

\* 124-134: the subprocess exits within the 5s wait that follows terminate()
\* (graceful), or the wait times out and it is killed and waited for; then
\* the handle is cleared
sp_stop_wait ==
    /\ pc = "sp_stop_wait"
    /\ \E graceful \in BOOLEAN :
        LET p == IF graceful THEN "dead" ELSE killed(process)
        IN  /\ process' = "none"
            /\ is_playing_flag' = FALSE
            /\ orphans' = Abandon(p, orphans)
    /\ Return
    /\ UNCHANGED <<state, result, restart_count>>
    /\ UNCHANGED <<local_vars, file_vars, env_vars>>

\* stop_streaming that forgets the player: the mode goes to IDLE with the
\* subprocess left running
stop_streaming_keeps_player ==
    /\ pc = "stop_streaming"
    /\ state' = IF state \in {STREAMING, TRANSITIONING} THEN IDLE ELSE state
    /\ Return
    /\ UNCHANGED <<result, player_vars, local_vars, file_vars, env_vars>>

(***************************************************************************)
(* AudioController.stop_streaming, audio_controller.py 71-80               *)
(***************************************************************************)
stop_streaming ==
    /\ pc = "stop_streaming"
    /\ IF state = STREAMING
       THEN /\ Call("sp_stop", "stop_streaming_idle")
            /\ UNCHANGED state
       ELSE IF state = TRANSITIONING
       THEN /\ state' = IDLE
            /\ Return
       ELSE /\ Return
            /\ UNCHANGED state
    /\ UNCHANGED <<result, player_vars, local_vars, file_vars, env_vars>>

\* 76
stop_streaming_idle ==
    /\ pc = "stop_streaming_idle"
    /\ state' = IDLE
    /\ Return
    /\ UNCHANGED <<result, player_vars, local_vars, file_vars, env_vars>>

\* switch_to_airplay without the early return: it stops the player whatever
\* the mode is
switch_to_airplay_always_stops ==
    /\ pc = "switch_to_airplay"
    /\ Call("sp_stop", "switch_to_airplay_set")
    /\ UNCHANGED <<state, result, player_vars, local_vars, file_vars, env_vars>>

(***************************************************************************)
(* AudioController.switch_to_airplay, audio_controller.py 82-101           *)
(***************************************************************************)
switch_to_airplay ==
    /\ pc = "switch_to_airplay"
    /\ IF state = AIRPLAY
       THEN /\ result' = TRUE
            /\ Return
       ELSE IF state = STREAMING
       THEN /\ Call("stop_streaming", "switch_to_airplay_set")
            /\ UNCHANGED result
       ELSE /\ pc' = "switch_to_airplay_set"
            /\ UNCHANGED <<result, stack>>
    /\ UNCHANGED <<state, player_vars, local_vars, file_vars, env_vars>>

\* switch_to_airplay that stops the player and forgets to set the mode
switch_to_airplay_keeps_mode ==
    /\ pc = "switch_to_airplay_set"
    /\ result' = TRUE
    /\ Return
    /\ UNCHANGED <<state, player_vars, local_vars, file_vars, env_vars>>

\* 99-101
switch_to_airplay_set ==
    /\ pc = "switch_to_airplay_set"
    /\ state' = AIRPLAY
    /\ result' = TRUE
    /\ Return
    /\ UNCHANGED <<player_vars, local_vars, file_vars, env_vars>>

\* switch_to_streaming that does not look whether the player is running
\* already
switch_to_streaming_unchecked ==
    /\ pc = "switch_to_streaming"
    /\ state' = IF state \in {STREAMING, AIRPLAY} THEN IDLE ELSE state
    /\ Call("start_streaming", "switch_to_streaming_ret")
    /\ UNCHANGED <<result, player_vars, local_vars, file_vars, env_vars>>

(***************************************************************************)
(* AudioController.switch_to_streaming, audio_controller.py 103-133        *)
(***************************************************************************)
switch_to_streaming ==
    /\ pc = "switch_to_streaming"
    /\ IF state = STREAMING /\ is_playing(process, is_playing_flag)
       THEN /\ result' = TRUE
            /\ Return
            /\ UNCHANGED <<state, is_playing_flag>>
       ELSE /\ is_playing_flag' =
                 IF state = STREAMING
                 THEN is_playing_effect(process, is_playing_flag)
                 ELSE is_playing_flag
            /\ state' = IF state \in {STREAMING, AIRPLAY} THEN IDLE ELSE state
            /\ Call("start_streaming", "switch_to_streaming_ret")
            /\ UNCHANGED result
    /\ UNCHANGED <<process, restart_count, orphans>>
    /\ UNCHANGED <<local_vars, file_vars, env_vars>>

\* 127-133: the value of start_streaming() is passed on
switch_to_streaming_ret ==
    /\ pc = "switch_to_streaming_ret"
    /\ Return
    /\ UNCHANGED <<state, result, player_vars, local_vars, file_vars, env_vars>>

(***************************************************************************)
(* AudioController.shutdown, audio_controller.py 179-184                   *)
(***************************************************************************)
shutdown ==
    /\ pc = "shutdown"
    /\ Call("stop_streaming", "shutdown_idle")
    /\ UNCHANGED <<state, result, player_vars, local_vars, file_vars, env_vars>>

shutdown_idle ==
    /\ pc = "shutdown_idle"
    /\ state' = IDLE
    /\ Return
    /\ UNCHANGED <<result, player_vars, local_vars, file_vars, env_vars>>

(***************************************************************************)
(* write_state_file, player.py 29-55.  An open file object refers to the   *)
(* file at the temp path ("temp"), to that file after it was renamed onto  *)
(* the status path ("state"), or to a file no path names any more ("gone").*)
(***************************************************************************)
OpenFile(at, buf) == [at |-> at, buf |-> buf]

\* the content of the two paths after file object f is closed (and flushed)
Flush(f, paths) ==
    IF f.buf = <<>> THEN paths
    ELSE IF f.at = "temp" THEN [paths EXCEPT !.temp = WriteAt0(@, f.buf)]
    ELSE IF f.at = "state" THEN [paths EXCEPT !.state = WriteAt0(@, f.buf)]
    ELSE paths

RECURSIVE FlushAll(_, _)
FlushAll(files, paths) ==
    IF files = <<>> THEN paths
    ELSE FlushAll(Tail(files), Flush(Head(files), paths))

\* where the open file objects refer to after temp_file.replace(STATE_FILE)
Renamed(files) ==
    [i \in DOMAIN files |->
        [files[i] EXCEPT !.at = IF @ = "temp" THEN "state" ELSE "gone"]]

\* write_state_file that opens the status file itself instead of a temp file
w_open_in_place ==
    /\ pc = "w_open"
    /\ state_file' = <<>>
    /\ open_files' = <<OpenFile("state", <<>>)>> \o open_files
    /\ pc' = "w_write"
    /\ UNCHANGED <<state, stack, result, player_vars, local_vars, env_vars>>
    /\ UNCHANGED <<state_str, temp_file>>

\* 48: open(temp_file, 'w') creates or truncates the temp file
w_open ==
    /\ pc = "w_open"
    /\ temp_file' = <<>>
    /\ open_files' = <<OpenFile("temp", <<>>)>> \o open_files
    /\ pc' = "w_write"
    /\ UNCHANGED <<state, stack, result, player_vars, local_vars, env_vars>>
    /\ UNCHANGED <<state_str, state_file>>

\* 49: f.write(state_str + '\n') fills the buffer of the file object
w_write ==
    /\ pc = "w_write"
    /\ open_files' = <<OpenFile(Head(open_files).at, state_str \o <<"\n">>)>>
                        \o Tail(open_files)
    /\ pc' = "w_close"
    /\ UNCHANGED <<state, stack, result, player_vars, local_vars, env_vars>>
    /\ UNCHANGED <<state_str, temp_file, state_file>>

\* 48-49: leaving the with block closes the file, which writes the buffer
w_close ==
    /\ pc = "w_close"
    /\ LET paths == Flush(Head(open_files),
                          [temp |-> temp_file, state |-> state_file])
       IN /\ temp_file' = paths.temp
          /\ state_file' = paths.state
    /\ open_files' = Tail(open_files)
    /\ pc' = "w_replace"
    /\ UNCHANGED <<state, stack, result, player_vars, local_vars, env_vars>>
    /\ UNCHANGED state_str

\* 50: temp_file.replace(STATE_FILE)
w_replace ==
    /\ pc = "w_replace"
    /\ state_file' = temp_file
    /\ temp_file' = NoFile
    /\ open_files' = Renamed(open_files)
    /\ state_str' = <<>>
    /\ Return
    /\ UNCHANGED <<state, result, player_vars, local_vars, env_vars>>

\* a call of write_state_file(arg) that returns to ret
CallWrite(arg, ret) ==
    /\ state_str' = StateStr(arg)
    /\ Call("w_open", ret)

(***************************************************************************)
(* main, player.py 147-220                                                 *)
(***************************************************************************)
\* 148
startup ==
    /\ pc = "startup"
    /\ Call("start_streaming", "startup_ret")
    /\ UNCHANGED <<state, result, player_vars, local_vars, file_vars, env_vars>>

\* a startup that enters the loop whatever start_streaming returned
startup_ret_unchecked ==
    /\ pc = "startup_ret"
    /\ CallWrite(EnumArg(state), "check_event")
    /\ last_state' = None
    /\ UNCHANGED <<state, result, player_vars, open_files, temp_file, state_file>>
    /\ UNCHANGED <<event, data, current_state, return_code, should_restart>>
    /\ UNCHANGED env_vars

\* 148-157
startup_ret ==
    /\ pc = "startup_ret"
    /\ IF ~result
       THEN /\ pc' = "exited"
            /\ exit_code' = 1
            /\ UNCHANGED <<stack, state_str, last_state>>
       ELSE /\ CallWrite(EnumArg(state), "check_event")
            /\ last_state' = None
            /\ UNCHANGED exit_code
    /\ UNCHANGED <<state, result, player_vars, open_files, temp_file, state_file>>
    /\ UNCHANGED <<event, data, current_state, return_code, should_restart>>
    /\ UNCHANGED <<airplay_manager, call, pipe_vars, signals, consec_ones>>

\* what check_event can return (airplay_manager.py 155-198)
Events == {"connect", "disconnect", None}

\* a loop that polls for events whether or not the manager was disabled
check_event_unguarded ==
    /\ pc = "check_event"
    /\ \E d \in Reads :
        /\ data' = d
        /\ event' = Classify(d)
        /\ IF Classify(d) = "connect"
           THEN Call("switch_to_airplay", "publish_event")
           ELSE IF Classify(d) = "disconnect"
           THEN Call("switch_to_streaming", "publish_event")
           ELSE /\ pc' = "monitor"
                /\ UNCHANGED stack
    /\ current_state' = None
    /\ return_code' = 0
    /\ should_restart' = FALSE
    /\ result' = FALSE
    /\ UNCHANGED <<state, player_vars, file_vars, env_vars, last_state>>

\* a loop in which a Connect event toggles: polled in AIRPLAY it is answered
\* like a Disconnect event
check_event_connect_toggles ==
    /\ pc = "check_event"
    /\ IF airplay_manager
       THEN \E d \in Reads :
            /\ data' = d
            /\ event' = Classify(d)
            /\ IF Classify(d) = "connect" /\ state # AIRPLAY
               THEN Call("switch_to_airplay", "publish_event")
               ELSE IF Classify(d) \in {"connect", "disconnect"}
               THEN Call("switch_to_streaming", "publish_event")
               ELSE /\ pc' = "monitor"
                    /\ UNCHANGED stack
       ELSE /\ pc' = "monitor"
            /\ event' = None
            /\ data' = NoData
            /\ UNCHANGED stack
    /\ current_state' = None
    /\ return_code' = 0
    /\ should_restart' = FALSE
    /\ result' = FALSE
    /\ UNCHANGED <<state, player_vars, file_vars, env_vars, last_state>>

\* 159-169: a new iteration.  event, current_state, return_code and
\* should_restart are assigned again before the iteration reads them, so
\* what the last iteration left in them is dropped here.
check_event ==
    /\ pc = "check_event"
    /\ IF airplay_manager
       THEN \E d \in Reads :
            /\ data' = d
            /\ event' = Classify(d)
            /\ IF Classify(d) = "connect"
               THEN Call("switch_to_airplay", "publish_event")
               ELSE IF Classify(d) = "disconnect"
               THEN Call("switch_to_streaming", "publish_event")
               ELSE /\ pc' = "monitor"
                    /\ UNCHANGED stack
       ELSE /\ pc' = "monitor"
            /\ event' = None
            /\ data' = NoData
            /\ UNCHANGED stack
    /\ current_state' = None
    /\ return_code' = 0
    /\ should_restart' = FALSE
    /\ result' = FALSE
    /\ UNCHANGED <<state, player_vars, file_vars, env_vars, last_state>>

\* 166, 170
publish_event ==
    /\ pc = "publish_event"
    /\ CallWrite(EnumArg(state), "monitor")
    /\ UNCHANGED <<state, result, player_vars, local_vars, env_vars>>
    /\ UNCHANGED <<open_files, temp_file, state_file>>

\* 173-178
monitor ==
    /\ pc = "monitor"
    /\ current_state' = state
    /\ IF state # last_state
       THEN /\ CallWrite(EnumArg(state), "branch")
            /\ last_state' = state
       ELSE /\ pc' = "branch"
            /\ UNCHANGED <<stack, state_str, last_state>>
    /\ UNCHANGED <<state, result, player_vars, env_vars>>
    /\ UNCHANGED <<open_files, temp_file, state_file>>
    /\ UNCHANGED <<event, data, return_code, should_restart>>

\* a loop that waits for the player in STREAMING without asking is_playing
branch_waits_unchecked ==
    /\ pc = "branch"
    /\ IF current_state = STREAMING
       THEN /\ pc' = "wait"
            /\ UNCHANGED stack
       ELSE IF current_state = AIRPLAY
       THEN /\ pc' = "check_event"
            /\ UNCHANGED stack
       ELSE Call("start_streaming", "idle_ret")
    /\ UNCHANGED <<state, result, player_vars>>
    /\ UNCHANGED <<local_vars, file_vars, env_vars>>

\* a loop that only sleeps in IDLE
branch_idle_sleeps ==
    /\ pc = "branch"
    /\ IF current_state = STREAMING
       THEN /\ is_playing_flag' = is_playing_effect(process, is_playing_flag)
            /\ pc' = IF is_playing(process, is_playing_flag)
                     THEN "check_event" ELSE "wait"
       ELSE /\ pc' = "check_event"
            /\ UNCHANGED is_playing_flag
    /\ UNCHANGED <<state, stack, result, process, restart_count, orphans>>
    /\ UNCHANGED <<local_vars, file_vars, env_vars>>

\* 180-182, 205-220
branch ==
    /\ pc = "branch"
    /\ IF current_state = STREAMING
       THEN /\ is_playing_flag' = is_playing_effect(process, is_playing_flag)
            /\ pc' = IF is_playing(process, is_playing_flag)
                     THEN "check_event" ELSE "wait"
            /\ UNCHANGED stack
       ELSE IF current_state = AIRPLAY
       THEN /\ pc' = "check_event"
            /\ UNCHANGED <<stack, is_playing_flag>>
       ELSE /\ Call("start_streaming", "idle_ret")
            /\ UNCHANGED is_playing_flag
    /\ UNCHANGED <<state, result, process, restart_count, orphans>>
    /\ UNCHANGED <<local_vars, file_vars, env_vars>>

\* 184, stream_player.py 146-156 and 179: wait() blocks until the subprocess
\* has exited and returns the status it exited with, which nothing has read
\* before
wait ==
    /\ pc = "wait"
    /\ process # "alive"
    /\ IF process = "none"
       THEN /\ return_code' = NoProcess
            /\ pc' = "handle_exit"
       ELSE /\ \E code \in ExitCodes : return_code' = code
            /\ pc' = "monitor_drain"
    /\ UNCHANGED <<state, stack, result, player_vars, file_vars, env_vars>>
    /\ UNCHANGED <<event, data, current_state, last_state, should_restart>>

\* stream_player.py 181-189: the logged stderr lines are drained inside a
\* try with a bare except
monitor_drain ==
    /\ pc = "monitor_drain"
    /\ pc' = "wait_ret"
    /\ UNCHANGED <<state, stack, result, player_vars, local_vars, file_vars>>
    /\ UNCHANGED env_vars

\* stream_player.py 157-158
wait_ret ==
    /\ pc = "wait_ret"
    /\ is_playing_flag' = FALSE
    /\ pc' = "handle_exit"
    /\ UNCHANGED <<state, stack, result, local_vars, file_vars, env_vars>>
    /\ UNCHANGED <<process, restart_count, orphans>>

\* 185-187, 202-204; ones is the history counter after the step
HandleExit(ones) ==
    /\ pc = "handle_exit"
    /\ LET r == handle_stream_exit(state, restart_count, return_code)
       IN /\ should_restart' = r.restart
          /\ restart_count' = r.count
          /\ IF r.restart
             THEN /\ pc' = "restart"
                  /\ UNCHANGED exit_code
             ELSE /\ pc' = "done"
                  /\ exit_code' = 0
    /\ consec_ones' = ones
    /\ UNCHANGED <<state, stack, result, file_vars>>
    /\ UNCHANGED <<process, is_playing_flag, orphans>>
    /\ UNCHANGED <<event, data, current_state, last_state, return_code>>
    /\ UNCHANGED <<airplay_manager, call, pipe_vars, signals>>

handle_exit == HandleExit(consec_ones)

\* the same step, counting the consecutive exits with code 1
handle_exit_counted ==
    HandleExit(IF return_code = 1
               THEN Min(consec_ones + 1, max_restart_attempts)
               ELSE 0)

\* 188-192
restart ==
    /\ pc = "restart"
    /\ state' = IDLE
    /\ CallWrite(EnumArg(IDLE), "restart_start")
    /\ UNCHANGED <<result, player_vars, local_vars, env_vars>>
    /\ UNCHANGED <<open_files, temp_file, state_file>>

\* 193
restart_start ==
    /\ pc = "restart_start"
    /\ Call("start_streaming", "restart_ret")
    /\ UNCHANGED <<state, result, player_vars, local_vars, file_vars, env_vars>>

\* a restart branch that does not publish the mode after its start attempt
restart_ret_unpublished ==
    /\ pc = "restart_ret"
    /\ restart_count' = IF result THEN reset_restart_count(restart_count)
                        ELSE restart_count
    /\ pc' = "check_event"
    /\ UNCHANGED <<state, stack, result, local_vars, env_vars>>
    /\ UNCHANGED <<process, is_playing_flag, orphans, file_vars>>

\* 193-201
restart_ret ==
    /\ pc = "restart_ret"
    /\ restart_count' = IF result THEN reset_restart_count(restart_count)
                        ELSE restart_count
    /\ CallWrite(EnumArg(state), "check_event")
    /\ UNCHANGED <<state, result, local_vars, env_vars>>
    /\ UNCHANGED <<process, is_playing_flag, orphans>>
    /\ UNCHANGED <<open_files, temp_file, state_file>>

\* 214-220
idle_ret ==
    /\ pc = "idle_ret"
    /\ CallWrite(EnumArg(state), "check_event")
    /\ UNCHANGED <<state, result, player_vars, local_vars, env_vars>>
    /\ UNCHANGED <<open_files, temp_file, state_file>>

(***************************************************************************)
(* signal_handler, player.py 58-74                                         *)
(***************************************************************************)
\* a SIGINT or SIGTERM is delivered: the handler runs on top of whatever the
\* main thread was executing
Signal ==
    /\ ~Terminated
    /\ signals < MaxSignals
    /\ signals' = signals + 1
    /\ stack' = <<IntrFrame(pc)>> \o stack
    /\ pc' = "signal_handler"
    /\ UNCHANGED <<state, result, player_vars, local_vars, file_vars>>
    /\ UNCHANGED <<airplay_manager, call, pipe_vars, exit_code, consec_ones>>

\* 65
signal_handler ==
    /\ pc = "signal_handler"
    /\ CallWrite(StrArg(<<"i", "d", "l", "e">>), "signal_shutdown")
    /\ UNCHANGED <<state, result, player_vars, local_vars, env_vars>>
    /\ UNCHANGED <<open_files, temp_file, state_file>>

\* 67-68
signal_shutdown ==
    /\ pc = "signal_shutdown"
    /\ Call("shutdown", "signal_exit")
    /\ UNCHANGED <<state, result, player_vars, local_vars, file_vars, env_vars>>

\* the locations the handlers on the stack interrupted
Interrupted(stk) == {stk[i].at : i \in {j \in DOMAIN stk : stk[j].k = "intr"}}

\* the frames left when the exception is caught at `at`
RECURSIVE Below(_, _)
Below(stk, at) ==
    IF stk = <<>> THEN <<>>
    ELSE IF Head(stk).k = "intr" /\ Head(stk).at = at THEN Tail(stk)
    ELSE Below(Tail(stk), at)

\* 74: sys.exit(0) raises SystemExit in the interrupted frames.  Every open
\* `with` block closes its file, the finally of stop() clears the handle,
\* and the bare except of _monitor_process swallows the exception.
signal_exit ==
    /\ pc = "signal_exit"
    /\ LET locs == Interrupted(stack)
           paths == FlushAll(open_files,
                             [temp |-> temp_file, state |-> state_file])
       IN /\ temp_file' = paths.temp
          /\ state_file' = paths.state
          /\ open_files' = <<>>
          /\ IF "sp_stop_wait" \in locs
             THEN /\ process' = "none"
                    /\ is_playing_flag' = FALSE
                  /\ orphans' = Abandon(process, orphans)
             ELSE UNCHANGED <<process, is_playing_flag, orphans>>
          /\ IF "monitor_drain" \in locs
             THEN /\ pc' = "wait_ret"
                  /\ stack' = Below(stack, "monitor_drain")
                  /\ UNCHANGED exit_code
             ELSE /\ pc' = "exited"
                  /\ stack' = <<>>
                  /\ exit_code' = 0
    /\ UNCHANGED <<state, result, restart_count, local_vars>>
    /\ UNCHANGED <<state_str, airplay_manager, call, pipe_vars, signals, consec_ones>>

(***************************************************************************)
(* Environment                                                             *)
(***************************************************************************)
\* the mpv subprocess exits on its own
ProcessExits ==
    /\ ~Terminated
    /\ process = "alive"
    /\ process' = "dead"
    /\ UNCHANGED <<state, pc, stack, result, local_vars, file_vars, env_vars>>
    /\ UNCHANGED <<is_playing_flag, restart_count, orphans>>

(***************************************************************************)
(* The controller as an object: a client that holds an AudioController and *)
(* calls its operations in any order, one at a time, as main() and         *)
(* signal_handler do.  `call` remembers the last call and what the mode    *)
(* and the handle were when it was made.                                   *)
(***************************************************************************)
ControllerOps == {"start_streaming", "stop_streaming", "switch_to_airplay",
                  "switch_to_streaming", "handle_stream_exit", "shutdown"}

\* what main() passes to handle_stream_exit (player.py 185-188)
ReturnCodes == ExitCodes \cup {NoProcess}

client_call ==
    /\ pc = "client"
    /\ \E op \in ControllerOps, code \in ReturnCodes :
        /\ op # "handle_stream_exit" => code = 0
        /\ call' = [op |-> op, state |-> state, process |-> process,
                    flag |-> is_playing_flag, count |-> restart_count,
                    code |-> code]
        /\ Call(op, "client")
    /\ UNCHANGED <<state, result, player_vars, local_vars, file_vars>>
    /\ UNCHANGED <<airplay_manager, signals, exit_code, consec_ones, pipe_vars>>

\* audio_controller.py 143-177, called with the exit code of the call
api_handle_stream_exit ==
    /\ pc = "handle_stream_exit"
    /\ LET r == handle_stream_exit(state, restart_count, call.code)
       IN /\ r.count <= MaxCount
          /\ result' = r.restart
          /\ restart_count' = r.count
    /\ Return
    /\ UNCHANGED <<state, process, is_playing_flag, orphans>>
    /\ UNCHANGED <<local_vars, file_vars, env_vars>>

\* player.py 195: stream_player.reset_restart_count()
client_reset_restart_count ==
    /\ pc = "client"
    /\ restart_count' = reset_restart_count(restart_count)
    /\ UNCHANGED <<state, pc, stack, result, process, is_playing_flag, orphans>>
    /\ UNCHANGED <<local_vars, file_vars, env_vars>>

(***************************************************************************)
(* The event channel: AirPlayManager (airplay_manager.py 109-198) polled   *)
(* in a loop as main() polls it, the hook that writes messages to the FIFO *)
(* at the pipe path, and a file system in which that FIFO can be removed   *)
(* and made again.  A descriptor stays open on the FIFO it was opened on.  *)
(***************************************************************************)
\* 116-128: pipe_fd after open_pipe(); ok is whether os.open succeeds
open_pipe(path, fd, ok) == IF path # 0 /\ ok THEN path ELSE fd

\* 130-138
close_pipe(fd) == 0

\* player.py 126
AirPlayManager_open_pipe ==
    /\ pc = "open_pipe"
    /\ \E ok \in BOOLEAN : pipe_fd' = open_pipe(pipe_path, pipe_fd, ok)
    /\ pc' = "poll"
    /\ UNCHANGED <<state, stack, result, player_vars, local_vars, file_vars>>
    /\ UNCHANGED <<airplay_manager, signals, exit_code, consec_ones, call>>
    /\ UNCHANGED <<pipe_path, fifos>>

\* what select and os.read make of the descriptor (172-176)
SelectOutcomes == {"timeout", "ready", "oserror"}

\* 165-176: what one check_event call reads, given the descriptor it has
\* once it tried to open the pipe (0 when that failed), the unread bytes
\* behind the descriptor and what select reports
PollRead(fd, buf, outcome) ==
    IF fd = 0 THEN NoData
    ELSE IF outcome = "ready" THEN SubSeq(buf, 1, Min(ReadSize, Len(buf)))
    ELSE NoData

\* 155-198
AirPlayManager_check_event ==
    /\ pc = "poll"
    /\ \E ok \in BOOLEAN, outcome \in SelectOutcomes :
        LET fd == IF pipe_fd = 0
                  THEN open_pipe(pipe_path, pipe_fd, ok) ELSE pipe_fd
            buf == IF fd = 0 THEN <<>> ELSE fifos[fd]
            n == Min(ReadSize, Len(buf))
        IN  /\ data' = PollRead(fd, buf, outcome)
            /\ IF fd = 0
               THEN \* 165-168
                    /\ outcome = "timeout"
                    /\ UNCHANGED <<pipe_fd, fifos>>
               ELSE IF outcome = "oserror"
               THEN \* 188-194
                    /\ pipe_fd' = open_pipe(pipe_path, close_pipe(fd), ok)
                    /\ UNCHANGED fifos
               ELSE IF outcome = "ready"
               THEN \* 173-176
                    /\ n > 0
                    /\ fifos' = [fifos EXCEPT
                                   ![fd] = SubSeq(@, n + 1, Len(@))]
                    /\ pipe_fd' = fd
               ELSE /\ n = 0
                    /\ pipe_fd' = fd
                    /\ UNCHANGED fifos
    /\ event' = Classify(data')
    /\ pc' = "polled"
    /\ UNCHANGED <<state, stack, result, player_vars, file_vars>>
    /\ UNCHANGED <<current_state, last_state, return_code, should_restart>>
    /\ UNCHANGED <<airplay_manager, signals, exit_code, consec_ones, call>>
    /\ UNCHANGED pipe_path

\* player.py 163-220: the rest of the iteration, then the next poll
next_poll ==
    /\ pc = "polled"
    /\ pc' = "poll"
    /\ UNCHANGED <<state, stack, result, player_vars, local_vars, file_vars>>
    /\ UNCHANGED env_vars

\* what the hook of the receiver writes
Messages == {ConnectMsg, DisconnectMsg, FooMsg}

\* the hook opens the FIFO at the pipe path and writes one message
HookWrites ==
    /\ pc \in {"poll", "polled"}
    /\ pipe_path # 0
    /\ \E msg \in Messages :
        /\ Len(fifos[pipe_path]) + Len(msg) <= MaxPipeBytes
        /\ fifos' = [fifos EXCEPT ![pipe_path] = @ \o msg]
    /\ UNCHANGED <<state, pc, stack, result, player_vars, local_vars, file_vars>>
    /\ UNCHANGED <<airplay_manager, signals, exit_code, consec_ones, call>>
    /\ UNCHANGED <<pipe_path, pipe_fd>>

\* the FIFO is unlinked
PipeRemoved ==
    /\ pc \in {"poll", "polled"}
    /\ pipe_path # 0
    /\ pipe_path' = 0
    /\ UNCHANGED <<state, pc, stack, result, player_vars, local_vars, file_vars>>
    /\ UNCHANGED <<airplay_manager, signals, exit_code, consec_ones, call>>
    /\ UNCHANGED <<pipe_fd, fifos>>

\* a new FIFO is made at the pipe path
PipeCreated ==
    /\ pc \in {"poll", "polled"}
    /\ pipe_path = 0
    /\ Len(fifos) < MaxPipes
    /\ fifos' = Append(fifos, <<>>)
    /\ pipe_path' = Len(fifos) + 1
    /\ UNCHANGED <<state, pc, stack, result, player_vars, local_vars, file_vars>>
    /\ UNCHANGED <<airplay_manager, signals, exit_code, consec_ones, call>>
    /\ UNCHANGED pipe_fd

(***************************************************************************)
(* The classification of check_event on its own: one os.read returns a     *)
(* text (or nothing, or bytes that do not decode) and lines 176-187 make   *)
(* an event of it.  The texts are a word in some letter case between       *)
(* leading and trailing whitespace.                                        *)
(***************************************************************************)
ConnectWords ==
    {<<"c","o","n","n","e","c","t">>, <<"C","O","N","N","E","C","T">>,
     <<"C","o","n","n","e","c","t">>, <<"c","o","N","n","E","c","T">>}
DisconnectWords ==
    {<<"d","i","s","c","o","n","n","e","c","t">>,
     <<"D","I","S","C","O","N","N","E","C","T">>,
     <<"D","i","s","c","o","n","n","e","c","t">>,
     <<"d","i","S","c","o","N","n","e","c","T">>}
OtherWords ==
    {<<>>, <<"f","o","o">>, <<"c","o","n","n","e","c">>,
     <<"c","o","n","n","e","c","t","s">>, <<"c","o","n"," ","n","e","c","t">>,
     <<"d","i","s","c","o","n","n","e","c","t","e","d">>,
     <<"c","o","n","n","e","c","t","\n","d","i","s","c","o","n","n","e","c","t">>,
     <<"r","e","c","o","n","n","e","c","t">>}
Leading == {<<>>, <<" ">>, <<"\n">>, <<"\t"," ">>}
Trailing == {<<>>, <<"\n">>, <<" ","\n">>, <<"\r","\n">>}

Padded(words) ==
    {l \o w \o t : l \in Leading, w \in words, t \in Trailing}

Texts ==
    Padded(ConnectWords) \cup Padded(DisconnectWords) \cup Padded(OtherWords)
        \cup {NoData, Undecodable}

\* 172-176: the read of one poll
os_read ==
    /\ pc = "read"
    /\ \E d \in Texts : data' = d
    /\ pc' = "classify"
    /\ UNCHANGED <<state, stack, result, player_vars, file_vars, env_vars>>
    /\ UNCHANGED <<event, current_state, last_state, return_code, should_restart>>

\* 176-198: the value check_event returns
classify ==
    /\ pc = "classify"
    /\ event' = Classify(data)
    /\ pc' = "read"
    /\ UNCHANGED <<state, stack, result, player_vars, file_vars, env_vars>>
    /\ UNCHANGED <<data, current_state, last_state, return_code, should_restart>>

\* the statements of main() but the handling of a player exit
MainSteps ==
    \/ startup \/ startup_ret \/ check_event \/ publish_event \/ monitor
    \/ branch \/ wait \/ monitor_drain \/ wait_ret
    \/ restart \/ restart_start \/ restart_ret \/ idle_ret

ControllerSteps ==
    \/ start_streaming \/ ss_ret
    \/ stop_streaming \/ stop_streaming_idle
    \/ switch_to_airplay \/ switch_to_airplay_set
    \/ switch_to_streaming \/ switch_to_streaming_ret
    \/ shutdown \/ shutdown_idle

PlayerSteps == sp_start \/ sp_grace \/ sp_stop \/ sp_stop_wait

WriteSteps == w_open \/ w_write \/ w_close \/ w_replace

HandlerSteps == signal_handler \/ signal_shutdown \/ signal_exit

Next ==
    \/ MainSteps \/ handle_exit
    \/ ControllerSteps \/ PlayerSteps \/ WriteSteps \/ HandlerSteps
    \/ Signal \/ ProcessExits

Spec == Init /\ [][Next]_vars

\* the daemon when no shutdown signal is delivered, with the history of
\* consecutive exits with code 1 kept
NextCounted ==
    \/ MainSteps \/ handle_exit_counted
    \/ ControllerSteps \/ PlayerSteps \/ WriteSteps \/ HandlerSteps
    \/ ProcessExits

SpecCounted == Init /\ [][NextCounted]_vars

\* the daemon when no shutdown signal is delivered, its main thread always
\* taking its next step (sleeps and subprocess calls return), and with the
\* assumption that player starts eventually succeed: a start that can launch
\* mpv does so in the end, and a subprocess that can survive the grace
\* window does so in the end
NextLive ==
    \/ MainSteps \/ handle_exit
    \/ ControllerSteps \/ PlayerSteps \/ WriteSteps \/ HandlerSteps
    \/ ProcessExits

MainThread ==
    \/ MainSteps \/ handle_exit
    \/ ControllerSteps \/ PlayerSteps \/ WriteSteps \/ HandlerSteps

SpecLive ==
    /\ Init /\ [][NextLive]_vars
    /\ WF_vars(MainThread)
    /\ SF_vars(sp_start /\ pc' = "sp_grace")
    /\ SF_vars(sp_grace /\ result')

\* the controller and its player under any sequence of calls
InitApi == Constructed /\ pc = "client"

NextApi ==
    \/ client_call \/ api_handle_stream_exit \/ client_reset_restart_count
    \/ ControllerSteps \/ PlayerSteps
    \/ ProcessExits

SpecApi == InitApi /\ [][NextApi]_vars

\* check_event's classification applied to one read after the other
InitClassify == Constructed /\ airplay_manager /\ pc = "read"

NextClassify == os_read \/ classify

SpecClassify == InitClassify /\ [][NextClassify]_vars

\* the event channel polled forever, after setup_ipc() returned True
InitPipe == Constructed /\ airplay_manager /\ pc = "open_pipe"

NextPipe ==
    \/ AirPlayManager_open_pipe \/ AirPlayManager_check_event \/ next_poll
    \/ HookWrites \/ PipeRemoved \/ PipeCreated

SpecPipe == InitPipe /\ [][NextPipe]_vars


(***************************************************************************)
(* Properties                                                              *)
(***************************************************************************)
\* the main thread executes the statement at label l (and is not interrupted
\* by a signal there)
Took(l) == pc = l /\ pc' # l /\ signals' = signals

IdleToken == AudioStateValue(IDLE)
StreamingToken == AudioStateValue(STREAMING)

\* C1: in no reachable state is the mode AIRPLAY while the subprocess the
\* StreamPlayer holds is alive.
C1_AirplayExcludesLivePlayer == ~(state = AIRPLAY /\ process = "alive")

\* a Connect polled while streaming has switched the mode to AIRPLAY
C1_Witness ==
    /\ pc = "monitor"
    /\ event = "connect"
    /\ last_state = STREAMING
    /\ state = AIRPLAY
    /\ process = "none"

\* C2: at most one playback subprocess is alive: start() is never entered
\* with a live subprocess behind the handle, and no live subprocess is ever
\* left without a handle.
C2_SinglePlayer ==
    /\ orphans = 0
    /\ pc = "sp_start" => process # "alive"

\* a player is launched again after the previous one crashed
C2_Witness ==
    /\ pc = "sp_grace"
    /\ process = "alive"
    /\ should_restart
    /\ restart_count > 0

\* C3: the tenth consecutive exit with code 1 is not followed by a restart
\* (handle_stream_exit returns False for it).
C3_TenthExitStops ==
    consec_ones >= max_restart_attempts => ~should_restart

C5_CounterSteps ==
    [][restart_count' # restart_count =>
        \/ /\ restart_count' = 0
           /\ Took("restart_ret")
           /\ result
        \/ /\ restart_count' = restart_count + 1
           /\ Took("handle_exit")
           /\ state = STREAMING
           /\ return_code # 0]_vars

\* the counter was incremented by an exit and reset by the restart that
\* followed
C5_Witness ==
    /\ pc = "w_open"
    /\ Head(stack).at = "check_event"
    /\ should_restart
    /\ result
    /\ restart_count = 0

\* C6: handle_stream_exit(0) returns False and leaves the counter as it was,
\* for every mode and counter value; the loop then ends, and nothing runs
\* after it.
C6_ExitZeroNeverRestarts ==
    /\ [](\A m \in AudioState : \A c \in 0..max_restart_attempts :
            handle_stream_exit(m, c, 0) = [restart |-> FALSE, count |-> c])
    /\ [][Took("handle_exit") /\ return_code = 0 =>
            /\ ~should_restart'
            /\ restart_count' = restart_count
            /\ process' = process
            /\ pc' = "done"]_vars
    /\ [][pc = "done" => pc' = "done" /\ process' = process]_vars

\* an exit with code 0 ended the loop while the counter was not zero
C6_Witness ==
    /\ pc = "done"
    /\ return_code = 0
    /\ state = STREAMING
    /\ restart_count > 0

\* C7: once the status file exists, what a reader finds in it is one of the
\* tokens streaming, airplay, idle: never an empty or a partial one.
C7_StatusFileWhole ==
    state_file # NoFile =>
        /\ ReadState(state_file) \in ValidTokens
        /\ state_file = ReadState(state_file) \o <<"\n">>

\* the write of the handler went in between the write and the close of an
\* interrupted write_state_file, whose buffer then landed in the status file
C7_Witness ==
    /\ pc = "exited"
    /\ signals > 0
    /\ ReadState(state_file) = StreamingToken

\* C8: when the daemon exits after a shutdown signal, no playback
\* subprocess is alive.
C8_ShutdownStopsPlayer ==
    (pc = "exited" /\ signals > 0) => (process # "alive" /\ orphans = 0)

\* C9: when the daemon has terminated after entering the loop, whatever ended
\* the loop, the mode is IDLE and the status file holds idle.
C9_TerminatesIdle ==
    (Terminated /\ exit_code = 0) =>
        (state = IDLE /\ ReadState(state_file) = IdleToken)

\* C10: switch_to_airplay in mode AIRPLAY returns True at once: the mode
\* stays AIRPLAY, the player is left alone and neither stop() nor start()
\* is entered.
C10_SwitchToAirplayIdempotent ==
    [][Took("switch_to_airplay") /\ state = AIRPLAY =>
        /\ result'
        /\ state' = AIRPLAY
        /\ UNCHANGED player_vars
        /\ pc' = Head(stack).at
        /\ stack' = Tail(stack)]_vars

\* a second Connect in a row has been handled
C10_Witness ==
    /\ pc = "publish_event"
    /\ event = "connect"
    /\ last_state = AIRPLAY
    /\ state = AIRPLAY
    /\ result

\* C11: when an iteration of the main loop is over (the loop is back at its
\* poll), an iteration that polled Connect has left the mode AIRPLAY with no
\* live player, and one that polled Disconnect has left the mode STREAMING
\* after a start that succeeded, or IDLE after a start that failed, never
\* AIRPLAY.
C11_EventDecidesMode ==
    pc = "check_event" =>
        /\ event = "connect" =>
                state = AIRPLAY /\ process # "alive" /\ orphans = 0
        /\ event = "disconnect" =>
                \/ state = STREAMING /\ result /\ process # "none"
                \/ state = IDLE /\ ~result

C11_Witness ==
    /\ pc = "check_event"
    /\ event = "disconnect"
    /\ data = DisconnectMsg
    /\ state = IDLE
    /\ last_state = IDLE

\* a text read from the pipe that is neither connect nor disconnect once it
\* is trimmed and lower-cased
Unrecognized(d) ==
    /\ d \notin {NoData, Undecodable}
    /\ Lower(Strip(d)) \notin {<<"c","o","n","n","e","c","t">>,
                                <<"d","i","s","c","o","n","n","e","c","t">>}

\* C12: a poll that reads an unrecognized message yields no event and goes
\* on to the health check as a poll that read nothing does: no switch
\* operation is called, and mode, player handle and restart counter keep
\* their values.
C12_UnrecognizedIsNoEvent ==
    [][Took("check_event") /\ Unrecognized(data')
        => /\ event' = None
           /\ pc' = "monitor"
           /\ UNCHANGED <<state, player_vars, stack>>]_vars

C12_Witness ==
    /\ pc = "monitor"
    /\ data = FooMsg
    /\ event = None
    /\ state = AIRPLAY

\* C13: start_streaming called while the mode is AIRPLAY returns False at
\* once, without reaching StreamPlayer.start, and leaves the mode, the
\* handle and the restart counter as they were.
C13_StartRefusedInAirplay ==
    [][Took("start_streaming") /\ state = AIRPLAY
        => /\ ~result'
           /\ pc' = Head(stack).at
           /\ UNCHANGED <<state, player_vars>>]_vars

C13_Witness ==
    /\ pc = "client"
    /\ call.op = "start_streaming"
    /\ call.state = AIRPLAY
    /\ state = AIRPLAY
    /\ ~result

\* C14: switch_to_streaming called while the mode is STREAMING and the
\* subprocess behind the handle is alive returns True at once: it neither
\* stops the player nor starts another, the handle and the mode stay as
\* they were.
C14_SwitchToStreamingIdempotent ==
    [][Took("switch_to_streaming") /\ state = STREAMING /\ process = "alive"
        => /\ result'
           /\ pc' = Head(stack).at
           /\ UNCHANGED <<state, player_vars>>]_vars

C14_Witness ==
    /\ pc = "client"
    /\ call.op = "switch_to_streaming"
    /\ call.state = STREAMING
    /\ call.process = "alive"
    /\ state = STREAMING
    /\ process = "alive"
    /\ result

\* C15: handle_stream_exit called in a mode other than STREAMING returns
\* False whatever the exit code is and leaves the restart counter and the
\* mode as they were.
C15_StrayExitIgnored ==
    [][Took("handle_stream_exit") /\ state # STREAMING
        => /\ ~result'
           /\ pc' = Head(stack).at
           /\ UNCHANGED <<state, restart_count>>]_vars

C15_Witness ==
    /\ pc = "client"
    /\ call.op = "handle_stream_exit"
    /\ call.state = AIRPLAY
    /\ call.code = 1
    /\ call.count > 0
    /\ state = AIRPLAY
    /\ restart_count = call.count
    /\ ~result

\* the statement runs in the start_streaming call of line 148
AtStartup == stack # <<>> /\ stack[Len(stack)].at = "startup_ret"

\* C16: when the start_streaming of daemon startup returns False, or is left
\* by an exception, the daemon exits with code 1; a daemon that exited with
\* code 1 never entered the loop and published nothing; when it returns
\* True the initial state is written, and the loop is entered with mode
\* STREAMING and `streaming` in the status file.
C16_StartupDecides ==
    /\ [][Took("startup_ret")
            => IF result
               THEN /\ state = STREAMING
                    /\ pc' = "w_open"
                    /\ state_str' = StreamingToken
                    /\ Head(stack').at = "check_event"
               ELSE pc' = "exited" /\ exit_code' = 1]_vars
    /\ [][Took("sp_start") /\ AtStartup /\ pc' \notin {"sp_grace", "ss_ret"}
            => pc' = "exited" /\ exit_code' = 1]_vars
    /\ [](exit_code = 1 =>
            /\ pc = "exited"
            /\ state_file = NoFile /\ temp_file = NoFile
            /\ event = None /\ last_state = None /\ current_state = None)
    /\ [](pc = "check_event" /\ last_state = None =>
            state = STREAMING /\ ReadState(state_file) = StreamingToken)

C16_Witness ==
    /\ pc = "exited"
    /\ exit_code = 1
    /\ state = IDLE
    /\ ~result
    /\ stack = <<>>

\* the descriptor is open on a FIFO that is not the one at the pipe path
StaleDescriptor == pipe_fd # 0 /\ pipe_fd # pipe_path

\* C17: a check_event call made while the descriptor is stale and a FIFO
\* exists at the pipe path again (the one the reader opened was removed and
\* replaced) drops the stale descriptor and leaves the reader open on the
\* FIFO now at the pipe path, so that what is written to it gets delivered.
C17_StaleDescriptorReopened ==
    [][Took("poll") /\ StaleDescriptor /\ pipe_path # 0
        => pipe_fd' = pipe_path]_vars

\* C18: StreamPlayer.stop called with a handle sends terminate and, when
\* its wait is over, leaves the handle cleared and _is_playing False with no
\* subprocess left running, whether the subprocess exited within the wait
\* or had to be killed; a stop cut short by the exit of the signal handler
\* leaves the same; stop called with no handle returns at once and changes
\* nothing.
C18_StopClearsHandle ==
    /\ [][Took("sp_stop")
            => IF process = "none"
               THEN pc' = Head(stack).at /\ UNCHANGED player_vars
               ELSE pc' = "sp_stop_wait" /\ UNCHANGED player_vars]_vars
    /\ [][Took("sp_stop_wait")
            => /\ process' = "none"
               /\ ~is_playing_flag'
               /\ orphans' = orphans
               /\ pc' = Head(stack).at]_vars
    /\ [][Took("signal_exit") /\ "sp_stop_wait" \in Interrupted(stack)
            => process' = "none" /\ ~is_playing_flag' /\ orphans' = orphans]_vars

C18_Witness ==
    /\ pc = "stop_streaming_idle"
    /\ "stop_streaming_idle" \in Interrupted(stack)
    /\ state = STREAMING
    /\ process = "none"
    /\ ~is_playing_flag
    /\ orphans = 0

\* C19: when an iteration in which the health check found the mode
\* STREAMING with a dead player is over (the loop is back at its poll after
\* the restart branch, or has been left by the break of line 204), the mode
\* is STREAMING after a start that succeeded, or IDLE; it is not STREAMING
\* with the dead player still behind the handle.
C19_DeadPlayerReconciled ==
    (pc = "check_event" /\ should_restart) \/ pc = "done"
        => \/ state = IDLE
           \/ state = STREAMING /\ result /\ process # "none"

\* the main thread is inside a start_streaming call, the signal handler
\* possibly running on top of it
StartLabels == {"sp_start", "sp_grace", "ss_ret"}
InStartStreaming ==
    pc \in StartLabels \/ Interrupted(stack) \cap StartLabels # {}

\* C20: at every boundary between two iterations of the main loop the mode
\* is IDLE, STREAMING or AIRPLAY; while the daemon runs the mode is
\* TRANSITIONING only while a start_streaming call is in progress;
\* write_state_file is never called with TRANSITIONING.
C20_TransitioningOnlyInStart ==
    /\ pc = "check_event" => state \in {IDLE, STREAMING, AIRPLAY}
    /\ state = TRANSITIONING /\ ~Terminated => InStartStreaming
    /\ pc = "w_open" => state_str # AudioStateValue(TRANSITIONING)

\* the statements of the main loop that call write_state_file
LoopWriters ==
    {"publish_event", "monitor", "restart", "restart_ret", "idle_ret"}

\* C21: the main loop calls write_state_file only with a mode that differs
\* from the one it published last, the one the status file holds: a step of
\* the loop that finds the mode as published performs no write.
C21_PublishOnChangeOnly ==
    [][Took(pc) /\ pc \in LoopWriters /\ pc' = "w_open"
        => ReadState(state_file) # state_str']_vars

\* C22: a StreamPlayer.start that does not get a subprocess past the grace
\* window (mpv unavailable, permission denied, launch error, early exit)
\* returns False to start_streaming, and start_streaming then returns False
\* with the mode IDLE and no live subprocess behind the handle.
C22_FailedStartLeavesIdle ==
    /\ [][Took("sp_start") /\ pc' # "sp_grace"
            => pc' = "ss_ret" /\ ~result']_vars
    /\ [][Took("sp_grace") /\ process # "alive"
            => pc' = "ss_ret" /\ ~result']_vars
    /\ [][Took("ss_ret") /\ ~result
            => /\ state' = IDLE
               /\ process' # "alive"
               /\ ~result'
               /\ pc' = Head(stack).at]_vars

\* the loop evaluates the mode (line 180) and finds it IDLE
IdleEvaluated == pc = "branch" /\ current_state = IDLE

\* C23: an iteration that finds the mode IDLE calls start_streaming; and,
\* when player starts eventually succeed, a mode found IDLE by the loop is
\* followed by mode STREAMING, unless a Connect event takes the mode to
\* AIRPLAY or the daemon is shut down first.
C23_IdleRetriesUntilStreaming ==
    /\ [][Took("branch") /\ current_state = IDLE
            => pc' = "start_streaming" /\ Head(stack').at = "idle_ret"]_vars
    /\ (IdleEvaluated ~> (state \in {STREAMING, AIRPLAY} \/ pc = "exited"))

C23_Witness ==
    /\ pc = "idle_ret"
    /\ current_state = IDLE
    /\ last_state = IDLE
    /\ state = STREAMING
    /\ result

\* C24: handle_stream_exit called in STREAMING with an exit code other than
\* 0 (1, 2, 3 or the -1 of a missing handle) adds exactly one to the restart
\* counter and returns True exactly when the counter after the increment is
\* below max_restart_attempts.
C24_NonZeroExitCounts ==
    [][Took("handle_stream_exit") /\ state = STREAMING /\ call.code # 0
        => /\ restart_count' = restart_count + 1
           /\ result' = (restart_count' < max_restart_attempts)
           /\ pc' = Head(stack).at
           /\ UNCHANGED state]_vars

C24_Witness ==
    /\ pc = "client"
    /\ call.op = "handle_stream_exit"
    /\ call.state = STREAMING
    /\ call.code = NoProcess
    /\ call.count = max_restart_attempts - 1
    /\ restart_count = max_restart_attempts
    /\ ~result

\* the statements of AudioController's operations
ControllerLabels ==
    {"start_streaming", "ss_ret", "stop_streaming", "stop_streaming_idle",
     "switch_to_airplay", "switch_to_airplay_set", "switch_to_streaming",
     "switch_to_streaming_ret", "shutdown", "shutdown_idle"}

\* C25: the mode changes only in a step of one of AudioController's own
\* operations; no statement of main() assigns it.
C25_ModeOwnedByController ==
    [][state' # state => pc \in ControllerLabels]_vars

\* C26: the loop reaches StreamPlayer.wait only from an is_playing() that
\* returned False, and whenever it is at wait the handle is absent or the
\* subprocess behind it has exited: wait has nothing to block on.
C26_WaitNeverBlocks ==
    /\ [](pc = "wait" => process # "alive")
    /\ [][Took("branch") /\ pc' = "wait"
            => /\ current_state = STREAMING
               /\ ~is_playing(process, is_playing_flag)]_vars
    /\ [][pc' = "wait" /\ pc # "wait" /\ signals' = signals
            => pc = "branch"]_vars

C26_Witness ==
    /\ pc = "wait"
    /\ process = "dead"
    /\ state = STREAMING
    /\ current_state = STREAMING

\* C27: with the manager disabled (setup_ipc failed) no event is polled and
\* the mode is never AIRPLAY; a check_event that has no descriptor because
\* the pipe cannot be opened returns None; the mode becomes AIRPLAY only in
\* an iteration that polled connect; and an iteration without an event goes
\* on to the health check, which waits for a dead player in STREAMING and
\* calls start_streaming in IDLE.
C27_ChannelUnavailable ==
    /\ [](~airplay_manager => event = None /\ state # AIRPLAY)
    /\ [](\A ok \in BOOLEAN : open_pipe(0, 0, ok) = 0)
    /\ [](\A outcome \in SelectOutcomes : \A buf \in {<<>>, ConnectMsg} :
            Classify(PollRead(0, buf, outcome)) = None)
    /\ [][state' = AIRPLAY /\ state # AIRPLAY => event = "connect"]_vars
    /\ [][Took("check_event") /\ event' = None
            => pc' = "monitor" /\ UNCHANGED <<state, player_vars>>]_vars
    /\ [][Took("branch") /\ event = None
            => /\ current_state = IDLE => pc' = "start_streaming"
               /\ current_state = STREAMING =>
                    pc' = IF is_playing(process, is_playing_flag)
                          THEN "check_event" ELSE "wait"]_vars

C27_Witness ==
    /\ ~airplay_manager
    /\ pc = "restart_ret"
    /\ should_restart
    /\ result
    /\ state = STREAMING
    /\ last_state = STREAMING

\* C28: the event check_event makes of one read is connect exactly when the
\* text is the word connect in any letter case between whitespace,
\* disconnect exactly when it is the word disconnect likewise, and None for
\* every other text, for empty or blank data, for bytes that do not decode
\* and for no data within the timeout.
C28_ClassifiesOneRead ==
    [][Took("classify")
        => /\ data \in Padded(ConnectWords) => event' = "connect"
           /\ data \in Padded(DisconnectWords) => event' = "disconnect"
           /\ data \in Padded(OtherWords) \cup {NoData, Undecodable}
                => event' = None]_vars

C28_Witness ==
    /\ pc = "read"
    /\ data = <<"\t"," ">> \o <<"d","i","S","c","o","N","n","e","c","T">>
                \o <<"\r","\n">>
    /\ event = "disconnect"

\* the first message of the unread bytes: up to and with the first newline
RECURSIVE FirstLine(_)
FirstLine(s) ==
    IF s = <<>> THEN <<>>
    ELSE IF Head(s) = "\n" THEN <<"\n">>
    ELSE <<Head(s)>> \o FirstLine(Tail(s))

\* C29: a poll that reads from the pipe when the message written first is
\* a recognized event delivers the event of that message, and leaves every
\* message written after it in the pipe for the polls to come: no
\* recognized event is lost or merged.
C29_OneMessagePerPoll ==
    [][Took("poll") /\ fifos' # fifos
                    /\ Classify(FirstLine(fifos[pipe_fd'])) # None
        => LET buf == fifos[pipe_fd']
               m == FirstLine(buf)
           IN  /\ event' = Classify(m)
               /\ fifos'[pipe_fd'] = SubSeq(buf, Len(m) + 1, Len(buf))]_vars

\* C30: the restart counter stays within 0..max_restart_attempts; the exit
\* handling that takes it to the maximum reports no restart and leaves the
\* main loop, and from then on the counter is not incremented.
C30_RestartCountBounded ==
    /\ [](restart_count \in 0..max_restart_attempts)
    /\ [][Took("handle_exit") /\ restart_count' = max_restart_attempts
                              /\ restart_count' # restart_count
            => ~should_restart' /\ pc' = "done"]_vars
    /\ [][restart_count = max_restart_attempts
            => restart_count' <= restart_count]_vars

C30_Witness ==
    /\ pc = "done"
    /\ restart_count = max_restart_attempts
    /\ ~should_restart
    /\ exit_code = 0

\* the daemon is past its startup: the initial start_streaming returned True
InLoop == pc \notin {"startup", "startup_ret"} /\ ~AtStartup

\* C31: once the initial start has succeeded, no step of a start attempt
\* changes the restart counter, a start that returned False hands control
\* back to the loop, and the loop ends only when a shutdown signal was
\* delivered or when handle_stream_exit returned False.
C31_FailedStartKeepsLooping ==
    /\ [][Took(pc) /\ InLoop /\ pc \in StartLabels
            => restart_count' = restart_count]_vars
    /\ [][Took("ss_ret") /\ InLoop /\ ~result
            => pc' \in {"restart_ret", "idle_ret", "switch_to_streaming_ret"}]_vars
    /\ [][InLoop /\ ~Terminated /\ Terminated'
            => \/ signals > 0
               \/ pc = "handle_exit" /\ ~should_restart']_vars

\* C32: whenever the loop stands between two iterations (the next statement
\* is the event poll of line 161), the status file holds the token of the
\* controller's current mode.
C32_StatusFollowsMode ==
    pc = "check_event" =>
        /\ state_file # NoFile
        /\ ReadState(state_file) = AudioStateValue(state)

\* a restart failed: the iteration ends with mode IDLE, published by the
\* restart branch, while the monitor's last_state still says STREAMING
C32_Witness ==
    /\ pc = "check_event"
    /\ should_restart
    /\ ~result
    /\ state = IDLE
    /\ last_state = STREAMING
    /\ ReadState(state_file) = IdleToken

\* signal_handler is running, called by a signal or by the except clauses
\* that end main
Handling ==
    \/ pc \in {"signal_handler", "signal_shutdown", "signal_exit"}
    \/ Interrupted(stack) # {}

\* C33: while the mode is AIRPLAY the loop starts no player, and a step of
\* the loop takes the mode away from AIRPLAY only in the switch_to_streaming
\* call made for a Disconnect event polled in that iteration; an iteration
\* that finds the mode AIRPLAY goes on to the next poll and changes nothing.
C33_AirplayHeldUntilDisconnect ==
    /\ [](state = AIRPLAY
            => process # "alive" /\ pc \notin {"sp_start", "sp_grace", "ss_ret"})
    /\ [][state = AIRPLAY /\ state' # AIRPLAY /\ ~Handling
            => event = "disconnect" /\ pc = "switch_to_streaming"]_vars
    /\ [][Took("branch") /\ current_state = AIRPLAY
            => /\ pc' = "check_event"
               /\ UNCHANGED <<state, process, orphans>>]_vars

\* a Connect event was polled while the mode was AIRPLAY already
C33_Witness ==
    /\ pc = "monitor"
    /\ event = "connect"
    /\ data = ConnectMsg
    /\ last_state = AIRPLAY
    /\ state = AIRPLAY
    /\ process = "none"

====
